---- MODULE Spec2Model ----
(***************************************************************************)
(* State-machine model of src/src/index.js: the Genesys Cloud Function     *)
(* that downloads PDF / image / audio files, stages them with the Gemini   *)
(* File API (resumable upload) and calls generateContent.                  *)
(*                                                                         *)
(* One behaviour is one invocation of exports.handler.  Every `await` of   *)
(* the handler (a remote call) is one action; the synchronous code between *)
(* two awaits is the action that precedes the next await.  The remote      *)
(* calls that were issued are recorded, in order, in `calls`; the values   *)
(* handed to `callback` are recorded, in order, in `callbacks`.            *)
(*                                                                         *)
(* JavaScript strings are modelled as sequences of tokens (<<>> is the     *)
(* empty string), so that concatenation, the stored-download regular       *)
(* expression and truthiness are computed rather than assumed.             *)
(***************************************************************************)
EXTENDS Integers, Sequences, FiniteSets, TLC

VARIABLES
    event,          \* the `event` argument of exports.handler
    context,        \* the `context` argument of exports.handler
    pc,             \* position of the handler
    payload,        \* `payload` (index.js:309)
    gcCredentials,  \* `gcCredentials` (index.js:339)
    googleApiKey,   \* `googleApiKey` (index.js:355)
    fileIdx,        \* which of the three modality blocks is running (1..3)
    fileUploads,    \* `fileUploads` (index.js:365)
    requestBody,    \* `requestBody` (index.js:485)
    calls,          \* remote calls issued so far, oldest first
    callbacks       \* responses passed to `callback`, oldest first

vars == <<event, context, pc, payload, gcCredentials, googleApiKey, fileIdx,
          fileUploads, requestBody, calls, callbacks>>

----------------------------------------------------------------------------
(* JavaScript values: a type tag as `typeof` reports it and a token        *)
(* sequence as the value.                                                  *)

Undefined == [t |-> "undefined", v |-> <<>>]
Str(s)    == [t |-> "string", v |-> s]
Bool(b)   == [t |-> "boolean", v |-> <<b>>]
Num(n)    == [t |-> "number", v |-> <<n>>]

\* JavaScript truthiness of a value (index.js:310, 348-350, 356, 368, 504).
Truthy(x) ==
    CASE x.t = "undefined" -> FALSE
      [] x.t = "string"    -> x.v # <<>>
      [] x.t = "boolean"   -> x.v = <<"true">>
      [] x.t = "number"    -> x.v # <<"0">>
      [] OTHER             -> TRUE

\* `name in obj` and `obj[name]` on a plain object (a record of the fields
\* that are present).
Has(obj, name) == name \in DOMAIN obj
Get(obj, name) == IF name \in DOMAIN obj THEN obj[name] ELSE Undefined

\* An optional object: `obj` holds the fields that are present; a value that
\* is not an object (undefined, null, a number) has isObject = FALSE.
Obj(o) == [isObject |-> TRUE, obj |-> o]
NotObj == [isObject |-> FALSE, obj |-> <<>>]

\* A record restricted to the fields whose choice is not `undefined`.
MkObj(f) == [n \in {m \in DOMAIN f : f[m] # Undefined} |-> f[n]]

Min(S) == CHOOSE i \in S : \A j \in S : i <= j

----------------------------------------------------------------------------
(* inputSchema (index.js:32-83)                                            *)

RequiredProps == <<"user_message">>

SchemaProps ==
    <<"pdfDownloadUrl", "imageDownloadUrl", "audioDownloadUrl", "model",
      "system_message", "user_message", "temperature", "max_tokens",
      "isJsonResponse", "responseSchema">>

SchemaType(p) ==
    CASE p = "temperature"    -> "number"
      [] p = "max_tokens"     -> "integer"
      [] p = "isJsonResponse" -> "boolean"
      [] OTHER                -> "string"

\* The message of validateInput, or NoError for its `null`.
NoError == <<>>

TypeViolation(data, p) ==
    /\ Has(data, p)
    /\ \/ SchemaType(p) = "string"  /\ data[p].t # "string"
       \/ SchemaType(p) = "number"  /\ data[p].t # "number"
       \/ SchemaType(p) = "boolean" /\ data[p].t # "boolean"

validateInput(data) ==
    LET missing == {i \in 1..Len(RequiredProps) : ~Has(data, RequiredProps[i])}
        bad     == {i \in 1..Len(SchemaProps) : TypeViolation(data, SchemaProps[i])}
    IN  IF missing # {}
        THEN <<"Missing required property: ", RequiredProps[Min(missing)]>>
        ELSE IF bad # {}
        THEN <<"Property '", SchemaProps[Min(bad)], "' should be a ",
               SchemaType(SchemaProps[Min(bad)])>>
        ELSE NoError

----------------------------------------------------------------------------
(* outputSchema and formatOutput (index.js:85-127, 158-185)                *)

OutputRequired == {"status", "message"}

formatOutput(output) ==
    IF OutputRequired \subseteq DOMAIN output
    THEN output
    ELSE [status  |-> 500,
          message |-> <<"Internal error: missing required output property">>]

----------------------------------------------------------------------------
(* URLs.  A URL is a sequence of tokens; a token of SlashTokens contains a *)
(* '/' character, every other token contains none.                         *)

SlashTokens == {"https://", "http://", "/", "/api/v2/downloads/"}

\* Variant of genesysMatch: the pattern without its scheme anchor, so that an
\* http URL of the same shape matches too.
genesysMatch_AnyScheme(url) ==
    LET n     == Len(url)
        stops == {k \in 3..n : url[k] \in SlashTokens}
        k     == IF stops = {} THEN 0 ELSE Min(stops)
    IN  IF /\ n >= 5
           /\ url[2] = "api-downloads."
           /\ k >= 4
           /\ url[k] = "/api/v2/downloads/"
           /\ k < n
        THEN [matched |-> TRUE, domain |-> SubSeq(url, 3, k - 1),
              downloadId |-> SubSeq(url, k + 1, n)]
        ELSE [matched |-> FALSE, domain |-> <<>>, downloadId |-> <<>>]

\* genesysRegex (index.js:215):
\*   ^https:\/\/api-downloads\.([^/]+)\/api\/v2\/downloads\/(.+)$
\* The domain group is the run of slash-free tokens after the host prefix,
\* and must be followed by the downloads path and a non-empty download id.
genesysMatch(url) ==
    LET n     == Len(url)
        stops == {k \in 3..n : url[k] \in SlashTokens}
        k     == IF stops = {} THEN 0 ELSE Min(stops)
    IN  IF /\ n >= 5
           /\ url[1] = "https://"
           /\ url[2] = "api-downloads."
           /\ k >= 4
           /\ url[k] = "/api/v2/downloads/"
           /\ k < n
        THEN [matched |-> TRUE, domain |-> SubSeq(url, 3, k - 1),
              downloadId |-> SubSeq(url, k + 1, n)]
        ELSE [matched |-> FALSE, domain |-> <<>>, downloadId |-> <<>>]

\* String.prototype.toLowerCase on one token.
ToLower(tok) ==
    CASE tok = ".PNG" -> ".png"
      [] tok = ".MP3" -> ".mp3"
      [] OTHER        -> tok

EndsWith(url, ext) == url # <<>> /\ ToLower(url[Len(url)]) = ext

\* guessMimeType (index.js:190-206)
guessMimeType(url, fileType) ==
    CASE fileType = "pdf" -> "application/pdf"
      [] fileType = "image" ->
            IF EndsWith(url, ".png") THEN "image/png"
            ELSE IF EndsWith(url, ".jpeg") \/ EndsWith(url, ".jpg") THEN "image/jpeg"
            ELSE IF EndsWith(url, ".webp") THEN "image/webp"
            ELSE "image/jpeg"
      [] fileType = "audio" ->
            IF EndsWith(url, ".wav") THEN "audio/wav"
            ELSE IF EndsWith(url, ".mp3") THEN "audio/mp3"
            ELSE IF EndsWith(url, ".ogg") THEN "audio/ogg"
            ELSE "audio/mp3"
      [] OTHER -> ""

----------------------------------------------------------------------------
(* JSON.parse                                                              *)

\* Variant of HasRawRequest: a test for presence ('rawRequest' in event).
HasRawRequest_Present(raw) == raw.form # "absent"

\* if (event.rawRequest) (index.js:310): the field is present and is not the
\* empty string.
HasRawRequest(raw) == raw.form \notin {"absent", "empty"}

\* JSON.parse(event.rawRequest) (index.js:312).  The raw text is described
\* by its form: "malformed" text makes JSON.parse throw (as the "empty" text
\* would), "scalar" text (5, null, "x") parses to a value that is not an
\* object, "object" text parses to the object `body`.
parseRawRequest(raw) ==
    CASE raw.form \in {"malformed", "empty"} -> [threw |-> TRUE,  value |-> NotObj]
      [] raw.form = "scalar"    -> [threw |-> FALSE, value |-> NotObj]
      [] OTHER                  -> [threw |-> FALSE, value |-> Obj(raw.body)]

\* Variant of parseResponseSchema: a lenient parser that never throws.
parseResponseSchema_NeverThrows(s) == [threw |-> FALSE, value |-> s]

\* JSON.parse(payload.responseSchema) (index.js:506) on a token sequence:
\* the text parses when it is "{" members "}" with no brace among the members.
parseResponseSchema(s) ==
    LET n == Len(s)
    IN  IF /\ n >= 2
           /\ s[1] = "{"
           /\ s[n] = "}"
           /\ \A i \in 2..(n - 1) : s[i] \notin {"{", "}"}
        THEN [threw |-> FALSE, value |-> SubSeq(s, 2, n - 1)]
        ELSE [threw |-> TRUE,  value |-> <<>>]

\* String.prototype.trim (index.js:545) on a token sequence.
Whitespace == {" ", "\n"}

RECURSIVE TrimLeft(_)
TrimLeft(s) ==
    IF s # <<>> /\ Head(s) \in Whitespace THEN TrimLeft(Tail(s)) ELSE s

RECURSIVE TrimRight(_)
TrimRight(s) ==
    IF s # <<>> /\ s[Len(s)] \in Whitespace
    THEN TrimRight(SubSeq(s, 1, Len(s) - 1))
    ELSE s

\* Variant of Trim: only the leading whitespace is removed (trimStart).
Trim_LeftOnly(s) == TrimLeft(s)

Trim(s) == TrimRight(TrimLeft(s))

----------------------------------------------------------------------------
(* The invocations that are explored: the values each payload field, the   *)
(* request headers and the client context are drawn from.                  *)

PublicPdfUrl == <<"https://", "example.com", "/", "bill", ".pdf">>
PublicPngUrl == <<"https://", "example.com", "/", "meter", ".PNG">>
PublicMp3Url == <<"https://", "example.com", "/", "call", ".mp3">>
\* Stored-download URLs: the prefix followed by a download id of one to
\* MaxIdLen tokens (the id group of the pattern, (.+), admits '/').
MaxIdLen == 1

GenesysPrefix == <<"https://", "api-downloads.", "mypurecloud.de",
                   "/api/v2/downloads/">>
IdTokens      == {"abc123", "/"}
DownloadIds   == UNION {[1..n -> IdTokens] : n \in 1..MaxIdLen}
GenesysUrls   == {GenesysPrefix \o id : id \in DownloadIds}
GenesysUrl    == GenesysPrefix \o <<"abc123">>
\* Not a stored-download URL: the scheme is http, not https.
PlainHttpUrl == <<"http://", "api-downloads.", "mypurecloud.de",
                  "/api/v2/downloads/", "abc123">>
\* Not a stored-download URL: the download id is empty.
EmptyIdUrl   == GenesysPrefix

GoodSchema == <<"{", "\"type\":\"OBJECT\"", "}">>
BadSchema  == <<"{", "\"type\":\"OBJECT\"">>

DocChoices ==
    [provider                    : {Undefined, Str(<<"Google">>)},
     model                       : {Undefined, Str(<<"gemini-2.0-pro-exp-02-05">>)},
     processLastConversationFile : {Undefined, Bool("true"), Bool("false")},
     conversationId              : {Undefined, Str(<<"conv-1">>)}]

MsgChoices ==
    [user_message : {Undefined, Str(<<>>), Str(<<"Summarize">>), Num("42")}]

FileChoices ==
    [pdfDownloadUrl   : {Undefined, Str(<<>>), Str(PublicPdfUrl), Str(GenesysUrl)},
     imageDownloadUrl : {Undefined, Str(PublicPngUrl), Str(PlainHttpUrl), Str(EmptyIdUrl)}
                            \cup {Str(u) : u \in GenesysUrls},
     audioDownloadUrl : {Undefined, Str(PublicMp3Url)}]

JsonChoices ==
    [isJsonResponse : {Undefined, Bool("true"), Bool("false")},
     responseSchema : {Undefined, Str(<<>>), Str(GoodSchema), Str(BadSchema)}]

\* The narrow choices combined with the full range of the other groups.
DocFew  == {d \in DocChoices : d.provider # Undefined /\ d.model # Undefined
                               /\ d.processLastConversationFile # Undefined}
MsgFew  == {m \in MsgChoices : m.user_message.t = "string"}
FileFew ==
    {f \in FileChoices :
        \/ f.pdfDownloadUrl = Undefined /\ f.imageDownloadUrl = Undefined
                                        /\ f.audioDownloadUrl = Undefined
        \/ f.pdfDownloadUrl = Str(PublicPdfUrl) /\ f.imageDownloadUrl = Undefined
                                                /\ f.audioDownloadUrl = Undefined
        \/ f.pdfDownloadUrl = Undefined /\ f.imageDownloadUrl = Str(GenesysUrl)
                                        /\ f.audioDownloadUrl # Undefined}
JsonFew ==
    {j \in JsonChoices :
        \/ j.isJsonResponse = Undefined /\ j.responseSchema = Undefined
        \/ j.isJsonResponse = Bool("true")
              /\ j.responseSchema \in {Undefined, Str(BadSchema)}}

Payloads(D, M, F, J) ==
    {MkObj(d @@ m @@ f @@ j) : d \in D, m \in M, f \in F, j \in J}

PayloadsFew == Payloads(DocFew, MsgFew, FileFew, JsonFew)

PayloadsAll ==
    Payloads(DocChoices, MsgChoices, FileFew, JsonFew)
        \cup Payloads(DocFew, MsgFew, FileChoices, JsonChoices)

\* The generation settings of a payload (index.js:56-73).
TuneChoices ==
    [temperature    : {Undefined, Num("0"), Num("0.7")},
     max_tokens     : {Undefined, Num("256")},
     system_message : {Undefined, Str(<<"Be brief">>)}]

\* A recognized field carrying a value of another type than its schema type.
WrongTypeChoices ==
    {[pdfDownloadUrl   |-> Num("7")],
     [imageDownloadUrl |-> Bool("true")],
     [audioDownloadUrl |-> [t |-> "object", v |-> <<"{}">>]],
     [model            |-> Num("2")],
     [system_message   |-> Bool("false")],
     [temperature      |-> Str(<<"hot">>)],
     [max_tokens       |-> Str(<<"many">>)],
     [max_tokens       |-> Num("2.5")],
     [isJsonResponse   |-> Str(<<"yes">>)],
     [responseSchema   |-> [t |-> "object", v |-> <<"{}">>]],
     [processLastConversationFile |-> Str(<<"yes">>)],
     [conversationId   |-> Num("7")]}

BasePayloads ==
    {MkObj([user_message |-> Str(<<"Summarize">>), pdfDownloadUrl |-> u]) :
        u \in {Undefined, Str(PublicPdfUrl)}}

PayloadsTuned ==
    {MkObj(t) @@ b : t \in TuneChoices, b \in BasePayloads}
        \cup {w @@ b : w \in WrongTypeChoices, b \in BasePayloads}

\* event.headers
HeaderChoices ==
    {NotObj,
     Obj([gcClientId |-> Str(<<"hdr-id">>), gcClientSecret |-> Str(<<"hdr-secret">>)]),
     Obj([gcClientId |-> Str(<<"hdr-id">>)]),
     Obj([googleApiKey |-> Str(<<"hdr-key">>)]),
     Obj([gcClientId |-> Str(<<"hdr-id">>), gcClientSecret |-> Str(<<"hdr-secret">>),
          googleApiKey |-> Str(<<"hdr-key">>)])}

\* context: absent, without clientContext, or with a clientContext.
ClientContexts ==
    {MkObj(c) : c \in [googleApiKey   : {Undefined, Str(<<"ctx-key">>)},
                       gcClientId     : {Undefined, Str(<<"ctx-id">>)},
                       gcClientSecret : {Undefined, Str(<<"ctx-secret">>)}]}

ContextChoices ==
    {[defined |-> FALSE, clientContext |-> NotObj],
     [defined |-> TRUE,  clientContext |-> NotObj]}
        \cup {[defined |-> TRUE, clientContext |-> Obj(c)] : c \in ClientContexts}

FullContext ==
    [defined |-> TRUE,
     clientContext |-> Obj([googleApiKey   |-> Str(<<"ctx-key">>),
                            gcClientId     |-> Str(<<"ctx-id">>),
                            gcClientSecret |-> Str(<<"ctx-secret">>)])]

NoRawRequest == [form |-> "absent", body |-> <<>>]

RawRequests ==
    {[form |-> "malformed", body |-> <<>>], [form |-> "scalar", body |-> <<>>],
     [form |-> "empty", body |-> <<>>]}
        \cup {[form |-> "object", body |-> p] : p \in PayloadsFew}

\* The (event, context) pairs an invocation starts from.
Invocations ==
    {[event   |-> [headers |-> NotObj, rawRequest |-> NoRawRequest, fields |-> p],
      context |-> FullContext] : p \in PayloadsAll}
    \cup
    {[event   |-> [headers |-> h, rawRequest |-> NoRawRequest, fields |-> p],
      context |-> c] : h \in HeaderChoices, c \in ContextChoices, p \in PayloadsFew}
    \cup
    {[event   |-> [headers |-> NotObj, rawRequest |-> r, fields |-> p],
      context |-> FullContext] :
        r \in RawRequests,
        p \in {<<>>, MkObj([user_message |-> Str(<<"Summarize">>),
                            pdfDownloadUrl |-> Str(PublicPdfUrl)])}}
    \cup
    {[event   |-> [headers |-> NotObj, rawRequest |-> NoRawRequest, fields |-> p],
      context |-> FullContext] : p \in PayloadsTuned}

----------------------------------------------------------------------------
(* Outcomes of the remote calls (the axios promises).                      *)

\* axios rejects: with a response (an HTTP error status) or without one.
AxiosErrors ==
    {[kind |-> "httpError",    hasResponse |-> TRUE,  status |-> 503,
      body |-> "{\"error\":{\"code\":503}}", message |-> "Request failed with status code 503"],
     [kind |-> "networkError", hasResponse |-> FALSE, status |-> 0,
      body |-> "", message |-> "Network Error"]}

\* Response bodies of an upload call that carries no upload URL / file uri.
ErrorBodies == {"{\"error\":{\"code\":400}}", "{}"}

\* Responses of generateContent: the fields the handler reads.
GeminiResponses ==
    {[text          |-> Str(<<" ", "{\"a\":", " ", "1}", "\n">>),
      finishReason  |-> Str(<<"STOP">>),
      usageMetadata |-> Obj([totalTokenCount |-> Num("42")])],
     [text          |-> Str(<<"Hello", " ", "there">>),
      finishReason  |-> Str(<<"MAX_TOKENS">>),
      usageMetadata |-> NotObj],
     [text          |-> Undefined,
      finishReason  |-> Str(<<"SAFETY">>),
      usageMetadata |-> Obj([promptTokenCount |-> Num("7")])],
     [text          |-> Undefined,
      finishReason  |-> Undefined,
      usageMetadata |-> NotObj]}

\* Responses of an upload call that axios resolves: the expected one, or one
\* of kind `missing` (no upload URL, no file uri) with its body.
UploadResponses(missing) ==
    {[result |-> "ok", body |-> ""]}
        \cup {[result |-> missing, body |-> b] : b \in ErrorBodies}

\* err.response?.status || 400 (index.js:388, 417, 446, 533)
ErrorStatus(err) == IF err.hasResponse /\ err.status # 0 THEN err.status ELSE 400

----------------------------------------------------------------------------
(* The handler (index.js:303-570)                                          *)

\* Variant of Modalities: the image block placed before the PDF block.
Modalities_ImageFirst == <<"image", "pdf", "audio">>

\* The modality blocks of the handler, in source order (index.js:368, 397, 426).
Modalities == <<"pdf", "image", "audio">>

UrlProp(m) ==
    CASE m = "pdf"   -> "pdfDownloadUrl"
      [] m = "image" -> "imageDownloadUrl"
      [] OTHER       -> "audioDownloadUrl"

\* The modality as the handler's messages spell it.
Label(m) == IF m = "pdf" THEN "PDF" ELSE m

CurrentModality == Modalities[fileIdx]
CurrentUrl      == Get(payload.obj, UrlProp(CurrentModality))

\* One remote call: the endpoint, the file it serves, how it ended and, for an
\* upload call that ended without its result, the response body.
Call(op, result, body) ==
    [op |-> op, file |-> CurrentModality, result |-> result, body |-> body]

\* Variant of Respond: the callback is invoked a second time with the same
\* response.
Respond_Twice(output) ==
    /\ callbacks' = Append(Append(callbacks, formatOutput(output)),
                           formatOutput(output))
    /\ pc' = "done"

\* return callback(null, formatOutput(output))
Respond(output) ==
    /\ callbacks' = Append(callbacks, formatOutput(output))
    /\ pc' = "done"

DownloadFailure(detail) ==
    [status  |-> 400,
     message |-> <<"Failed to download ", Label(CurrentModality)>>,
     detail  |-> Str(detail)]

UploadFailure(status, detail) ==
    [status  |-> status,
     message |-> <<"Failed to upload ", Label(CurrentModality)>>,
     detail  |-> Str(detail)]

InternalError(detail) ==
    [status |-> 500, message |-> <<"Internal error">>, detail |-> Str(detail)]

Init ==
    /\ \E i \in Invocations : event = i.event /\ context = i.context
    /\ pc = "start"
    /\ payload = NotObj
    /\ gcCredentials = <<>>
    /\ googleApiKey = Undefined
    /\ fileIdx = 1
    /\ fileUploads = <<>>
    /\ requestBody = <<>>
    /\ calls = <<>>
    /\ callbacks = <<>>

\* index.js:308-326: the payload is the parsed rawRequest, else the event.
ParsePayload ==
    /\ pc = "start"
    /\ IF HasRawRequest(event.rawRequest)
       THEN LET r == parseRawRequest(event.rawRequest)
            IN  IF r.threw
                THEN /\ Respond([status  |-> 400,
                                 message |-> <<"rawRequest is not valid JSON">>,
                                 detail  |-> Str(<<"Unexpected token">>)])
                     /\ UNCHANGED payload
                ELSE /\ payload' = r.value
                     /\ pc' = "validate"
                     /\ UNCHANGED callbacks
       ELSE /\ payload' = Obj(event.fields)
            /\ pc' = "validate"
            /\ UNCHANGED callbacks
    /\ UNCHANGED <<event, context, gcCredentials, googleApiKey, fileIdx,
                   fileUploads, requestBody, calls>>

\* index.js:328-336; the `in` operator throws a TypeError on a payload that
\* is not an object, which the outer catch (index.js:561-569) reports.
ValidatePayload ==
    /\ pc = "validate"
    /\ IF ~payload.isObject
       THEN Respond(InternalError(<<"Cannot use 'in' operator">>))
       ELSE LET inputError == validateInput(payload.obj)
            IN  IF inputError # NoError
                THEN Respond([status  |-> 400,
                              message |-> <<"Invalid input: ">> \o inputError])
                ELSE pc' = "credentials" /\ UNCHANGED callbacks
    /\ UNCHANGED <<event, context, payload, gcCredentials, googleApiKey, fileIdx,
                   fileUploads, requestBody, calls>>

\* a || b on JavaScript values
OrElse(a, b) == IF Truthy(a) THEN a ELSE b

\* event.headers && event.headers[name]
HeaderValue(name) ==
    IF event.headers.isObject THEN Get(event.headers.obj, name) ELSE Undefined

\* Variant of ContextValue: the request header of that name is preferred.
ContextValue_HeaderFirst(name) ==
    OrElse(HeaderValue(name),
           IF context.clientContext.isObject
           THEN Get(context.clientContext.obj, name)
           ELSE Undefined)

\* context.clientContext && context.clientContext[name]
ContextValue(name) ==
    IF context.clientContext.isObject
    THEN Get(context.clientContext.obj, name)
    ELSE Undefined

\* Variant of MissingGoogleApiKey: a missing key is never detected.
MissingGoogleApiKey_Never(key) == FALSE

\* if (!googleApiKey) (index.js:356)
MissingGoogleApiKey(key) == ~Truthy(key)

\* index.js:338-362: credentials, then the googleApiKey check.  Reading
\* context.clientContext of an absent context throws (outer catch).
MissingKeyResponse ==
    [status  |-> 400,
     message |-> <<"Missing googleApiKey in context.clientContext">>]

ResolveCredentials ==
    /\ pc = "credentials"
    /\ IF ~context.defined
       THEN /\ Respond(InternalError(<<"Cannot read properties of undefined">>))
            /\ UNCHANGED <<gcCredentials, googleApiKey>>
       ELSE /\ gcCredentials' =
                 [gcClientId     |-> OrElse(HeaderValue("gcClientId"),
                                            ContextValue("gcClientId")),
                  gcClientSecret |-> OrElse(HeaderValue("gcClientSecret"),
                                            ContextValue("gcClientSecret"))]
            /\ googleApiKey' = ContextValue("googleApiKey")
            /\ IF MissingGoogleApiKey(googleApiKey')
               THEN Respond(MissingKeyResponse)
               ELSE pc' = "file" /\ UNCHANGED callbacks
    /\ UNCHANGED <<event, context, payload, fileIdx, fileUploads, requestBody, calls>>

\* Variant of Advance: the handler re-enters the modality block it has just
\* left (a retry loop around the block).
Advance_RepeatBlock == pc' = "file" /\ UNCHANGED fileIdx

\* Variant of Advance: the modality blocks chained as else-if, so that only
\* the first block is ever entered.
Advance_FirstBlockOnly == pc' = "build" /\ UNCHANGED fileIdx

\* The handler moves on to the next modality block, or to the parts array.
Advance ==
    IF fileIdx < Len(Modalities)
    THEN fileIdx' = fileIdx + 1 /\ pc' = "file"
    ELSE pc' = "build" /\ UNCHANGED fileIdx

\* Variant of MissingGcCredentials: only the absence of both is an error.
MissingGcCredentials_OnlyBoth(credentials) ==
    ~Truthy(credentials.gcClientId) /\ ~Truthy(credentials.gcClientSecret)

\* if (!gcClientId || !gcClientSecret) (index.js:222)
MissingGcCredentials(credentials) ==
    ~Truthy(credentials.gcClientId) \/ ~Truthy(credentials.gcClientSecret)

\* index.js:368-371, 397-400, 426-429 and fetchFile up to its first remote
\* call (index.js:212-227, 255-256).
ProcessFile ==
    /\ pc = "file"
    /\ IF ~Truthy(CurrentUrl)
       THEN Advance /\ UNCHANGED callbacks
       ELSE IF genesysMatch(CurrentUrl.v).matched
       THEN IF MissingGcCredentials(gcCredentials)
            THEN /\ Respond(DownloadFailure(
                       <<"Missing gcClientId or gcClientSecret in headers or clientContext for Genesys Cloud file download.">>))
                 /\ UNCHANGED fileIdx
            ELSE pc' = "token" /\ UNCHANGED <<fileIdx, callbacks>>
       ELSE pc' = "download" /\ UNCHANGED <<fileIdx, callbacks>>
    /\ UNCHANGED <<event, context, payload, gcCredentials, googleApiKey,
                   fileUploads, requestBody, calls>>

\* fetchFile, the OAuth token call (index.js:225-241) and the handler's
\* download catch (index.js:372-380, 401-409, 430-438).
TokenExchange ==
    /\ pc = "token"
    /\ \/ /\ calls' = Append(calls, Call("tokenExchange", "ok", ""))
          /\ pc' = "authDownload"
          /\ UNCHANGED callbacks
       \/ /\ calls' = Append(calls, Call("tokenExchange", "noAccessToken", ""))
          /\ Respond(DownloadFailure(<<"Failed to obtain access token from Genesys Cloud.">>))
       \/ \E err \in AxiosErrors :
          /\ calls' = Append(calls, Call("tokenExchange", err.kind, ""))
          /\ Respond(DownloadFailure(
                <<"Failed to obtain Genesys Cloud OAuth token: ", err.message>>))
    /\ UNCHANGED <<event, context, payload, gcCredentials, googleApiKey, fileIdx,
                   fileUploads, requestBody>>

\* fetchFile, the authenticated download (index.js:242-254).
AuthDownload ==
    /\ pc = "authDownload"
    /\ \/ /\ calls' = Append(calls, Call("authDownload", "ok", ""))
          /\ pc' = "uploadStart"
          /\ UNCHANGED callbacks
       \/ \E err \in AxiosErrors :
          /\ calls' = Append(calls, Call("authDownload", err.kind, ""))
          /\ Respond(DownloadFailure(
                <<"Error downloading file from Genesys Cloud: ", err.message>>))
    /\ UNCHANGED <<event, context, payload, gcCredentials, googleApiKey, fileIdx,
                   fileUploads, requestBody>>

\* fetchFile, the direct download of a public URL (index.js:255-263).
PublicDownload ==
    /\ pc = "download"
    /\ \/ /\ calls' = Append(calls, Call("download", "ok", ""))
          /\ pc' = "uploadStart"
          /\ UNCHANGED callbacks
       \/ \E err \in AxiosErrors :
          /\ calls' = Append(calls, Call("download", err.kind, ""))
          /\ Respond(DownloadFailure(<<"Error downloading file: ", err.message>>))
    /\ UNCHANGED <<event, context, payload, gcCredentials, googleApiKey, fileIdx,
                   fileUploads, requestBody>>

\* Variant of NoUploadUrl: the missing upload URL goes unnoticed.
NoUploadUrl_Never(result) == FALSE

\* if (!uploadUrl) (index.js:285): the start response carries no
\* x-goog-upload-url header.
NoUploadUrl(result) == result = "noUploadUrl"

\* uploadFile, the start call (index.js:270-287; validateStatus accepts every
\* HTTP status, so only a transport failure rejects) and the handler's upload
\* catch (index.js:385-393, 414-422, 443-451).
UploadStart ==
    /\ pc = "uploadStart"
    /\ \/ \E r \in UploadResponses("noUploadUrl") :
          /\ calls' = Append(calls, Call("uploadStart", r.result, r.body))
          /\ IF NoUploadUrl(r.result)
             THEN Respond(UploadFailure(400,
                     <<"Failed to start resumable upload: ", r.body>>))
             ELSE pc' = "uploadFinalize" /\ UNCHANGED callbacks
       \/ \E err \in {e \in AxiosErrors : ~e.hasResponse} :
          /\ calls' = Append(calls, Call("uploadStart", err.kind, ""))
          /\ Respond(UploadFailure(ErrorStatus(err), <<err.message>>))
    /\ UNCHANGED <<event, context, payload, gcCredentials, googleApiKey, fileIdx,
                   fileUploads, requestBody>>

\* Variant of NoFileUri: the missing file uri goes unnoticed.
NoFileUri_Never(result) == FALSE

\* if (!fileUri) (index.js:297): the finalize response carries no file.uri.
NoFileUri(result) == result = "noFileUri"

\* uploadFile, the finalize call (index.js:288-300), fileUploads.push
\* (index.js:384, 413, 442) and the handler's upload catch.
UploadFinalize ==
    /\ pc = "uploadFinalize"
    /\ \/ \E r \in UploadResponses("noFileUri") :
          /\ calls' = Append(calls, Call("uploadFinalize", r.result, r.body))
          /\ IF NoFileUri(r.result)
             THEN /\ Respond(UploadFailure(400,
                         <<"Failed to finalize upload: ", r.body>>))
                  /\ UNCHANGED <<fileIdx, fileUploads>>
             ELSE /\ fileUploads' = Append(fileUploads,
                         [modality  |-> CurrentModality,
                          file_uri  |-> IF r.result = "ok"
                                        THEN Str(<<"files/", CurrentModality>>)
                                        ELSE Undefined,
                          mime_type |-> guessMimeType(CurrentUrl.v, CurrentModality)])
                  /\ Advance
                  /\ UNCHANGED callbacks
       \/ \E err \in AxiosErrors :
          /\ calls' = Append(calls, Call("uploadFinalize", err.kind, ""))
          /\ Respond(UploadFailure(ErrorStatus(err), <<err.message>>))
          /\ UNCHANGED <<fileIdx, fileUploads>>
    /\ UNCHANGED <<event, context, payload, gcCredentials, googleApiKey, requestBody>>

\* Fields the handler extracts from the payload (index.js:348-352).
Model        == OrElse(Get(payload.obj, "model"), Str(<<"gemini-2.0-flash-exp">>))
SystemText   == OrElse(Get(payload.obj, "system_message"), Str(<<>>))
UserPrompt   == OrElse(Get(payload.obj, "user_message"), Str(<<>>))
Temperature  == IF Get(payload.obj, "temperature") # Undefined
                THEN Get(payload.obj, "temperature") ELSE Num("0.3")
MaxTokens    == IF Get(payload.obj, "max_tokens") # Undefined
                THEN Get(payload.obj, "max_tokens") ELSE Num("1024")

TextPart(prompt) == [text |-> prompt.v]
FilePart(upload) ==
    [file_data |-> [mime_type |-> upload.mime_type, file_uri |-> upload.file_uri]]

FileParts(uploads) == [i \in 1..Len(uploads) |-> FilePart(uploads[i])]

\* Variant of buildParts: an empty prompt is left out in every branch, the
\* text-only one included.
buildParts_NoEmptyText(uploads, prompt) ==
    LET textIfAny == IF Truthy(prompt) THEN <<[text |-> prompt.v]>> ELSE <<>>
        files     == [i \in 1..Len(uploads) |->
                        [file_data |-> [mime_type |-> uploads[i].mime_type,
                                        file_uri  |-> uploads[i].file_uri]]]
    IN  IF Len(uploads) = 1 /\ uploads[1].modality = "pdf"
        THEN textIfAny \o files
        ELSE files \o textIfAny

\* Variant of buildParts: file parts always first, whatever the files are.
buildParts_FilesFirst(uploads, prompt) ==
    IF Len(uploads) = 0
    THEN <<TextPart(prompt)>>
    ELSE FileParts(uploads)
            \o (IF Truthy(prompt) THEN <<TextPart(prompt)>> ELSE <<>>)

\* The parts array (index.js:454-482).
buildParts(uploads, prompt) ==
    IF Len(uploads) = 0
    THEN <<TextPart(prompt)>>
    ELSE IF Len(uploads) = 1 /\ uploads[1].modality = "pdf"
    THEN (IF Truthy(prompt) THEN <<TextPart(prompt)>> ELSE <<>>)
            \o <<FilePart(uploads[1])>>
    ELSE FileParts(uploads)
            \o (IF Truthy(prompt) THEN <<TextPart(prompt)>> ELSE <<>>)

\* if (payload.isJsonResponse && payload.responseSchema) (index.js:504)
WantsSchema(p) ==
    Truthy(Get(p, "isJsonResponse")) /\ Truthy(Get(p, "responseSchema"))

\* index.js:454-518: the parts array, the request body and the controlled
\* generation parameters; an unparsable responseSchema ends the invocation.
BuildRequest ==
    /\ pc = "build"
    /\ LET base ==
             [contents |-> <<[parts |-> buildParts(fileUploads, UserPrompt)]>>,
              generationConfig |->
                  [temperature |-> Temperature, maxOutputTokens |-> MaxTokens]]
           withSystem ==
             IF Truthy(SystemText)
             THEN base @@ [system_instruction |-> [parts |-> <<TextPart(SystemText)>>]]
             ELSE base
           parsed == parseResponseSchema(Get(payload.obj, "responseSchema").v)
       IN  IF WantsSchema(payload.obj)
           THEN IF parsed.threw
                THEN /\ Respond([status  |-> 400,
                                 message |-> <<"Invalid responseSchema JSON">>,
                                 detail  |-> Str(<<"Unexpected end of JSON input">>)])
                     /\ UNCHANGED requestBody
                ELSE /\ requestBody' =
                          [withSystem EXCEPT !.generationConfig =
                              @ @@ [responseMimeType |-> "application/json",
                                    responseSchema   |-> parsed.value]]
                     /\ pc' = "generate"
                     /\ UNCHANGED callbacks
           ELSE /\ requestBody' = withSystem
                /\ pc' = "generate"
                /\ UNCHANGED callbacks
    /\ UNCHANGED <<event, context, payload, gcCredentials, googleApiKey, fileIdx,
                   fileUploads, calls>>

\* The generation call; a call that succeeded also records geminiResp.data.
GenerateCall(result) ==
    [op |-> "generateContent", file |-> "none", result |-> result, body |-> ""]

\* Variant of SuccessOutput: the usage metadata is not copied to the output.
SuccessOutput_NoUsage(data) ==
    LET text == IF Truthy(data.text) THEN data.text.v ELSE <<>>
    IN  [status         |-> 200,
         message        |-> <<"success">>,
         geminiResponse |-> data,
         textOutput     |-> IF Truthy(Get(payload.obj, "isJsonResponse"))
                            THEN Trim(text) ELSE text,
         finishReason   |-> IF Truthy(data.finishReason)
                            THEN data.finishReason.v ELSE <<>>,
         usage          |-> <<>>]

\* The final output (index.js:540-557).
SuccessOutput(data) ==
    LET text == OrElse(data.text, Str(<<>>)).v
    IN  [status         |-> 200,
         message        |-> <<"success">>,
         geminiResponse |-> data,
         textOutput     |-> IF Truthy(Get(payload.obj, "isJsonResponse"))
                            THEN Trim(text) ELSE text,
         finishReason   |-> OrElse(data.finishReason, Str(<<>>)).v,
         usage          |-> IF data.usageMetadata.isObject
                            THEN data.usageMetadata.obj ELSE <<>>]

\* index.js:520-559: the generateContent call, its catch and the final output.
Generate ==
    /\ pc = "generate"
    /\ \/ \E data \in GeminiResponses :
          /\ calls' = Append(calls, GenerateCall("ok") @@ [data |-> data])
          /\ Respond(SuccessOutput(data))
       \/ \E err \in AxiosErrors :
          /\ calls' = Append(calls, GenerateCall(err.kind))
          /\ Respond([status  |-> ErrorStatus(err),
                      message |-> <<"Failed to call generateContent">>,
                      detail  |-> IF err.hasResponse
                                  THEN [t |-> "object", v |-> <<err.body>>]
                                  ELSE Str(<<err.message>>)])
    /\ UNCHANGED <<event, context, payload, gcCredentials, googleApiKey, fileIdx,
                   fileUploads, requestBody>>

Next ==
    \/ ParsePayload
    \/ ValidatePayload
    \/ ResolveCredentials
    \/ ProcessFile
    \/ TokenExchange
    \/ AuthDownload
    \/ PublicDownload
    \/ UploadStart
    \/ UploadFinalize
    \/ BuildRequest
    \/ Generate

Spec == Init /\ [][Next]_vars

\* The invocation environment keeps running the handler: a step that is
\* possible is eventually taken, and every awaited call eventually settles.
FairSpec == Spec /\ WF_vars(Next)

----------------------------------------------------------------------------
(* Vocabulary of the properties.                                           *)

Done     == pc = "done"
Response == callbacks[1]

\* The payload the event carries, as the caller sent it.
GivenPayload ==
    CASE event.rawRequest.form \in {"absent", "empty"} -> Obj(event.fields)
      [] event.rawRequest.form = "object" -> Obj(event.rawRequest.body)
      [] OTHER                            -> NotObj

Given(f)   == Get(GivenPayload.obj, f)
IsTrue(f)  == Given(f) = Bool("true")
IsFalse(f) == Given(f) = Bool("false")

CallsOf(ops)   == {i \in DOMAIN calls : calls[i].op \in ops}
Count(op, m)   == Cardinality({i \in CallsOf({op}) : calls[i].file = m})
FetchOps       == {"tokenExchange", "authDownload", "download"}
UploadOps      == {"uploadStart", "uploadFinalize"}
FileModalities == {Modalities[i] : i \in DOMAIN Modalities}
Mentions(message, word) == \E i \in DOMAIN message : message[i] = word

\* The configuration context lacks the provider API key.
KeyAbsent == ~Truthy(ContextValue("googleApiKey"))

\* The function is configured: a context whose clientContext holds the key.
Configured == context.defined /\ ~KeyAbsent

\* The file URLs the payload supplies: present and not the empty string.
Supplied == {m \in FileModalities : Given(UrlProp(m)).t = "string"
                                    /\ Given(UrlProp(m)).v # <<>>}

----------------------------------------------------------------------------
(* C1: every payload that lacks one of the required fields provider,       *)
(* model, user_message, processLastConversationFile is answered with       *)
(* status 400 and a message that names the missing field, and no remote    *)
(* call is issued for it.  (Stated for a configured function, so that the  *)
(* missing field is all that is wrong with the invocation.)                *)

DocumentedRequired ==
    {"provider", "model", "user_message", "processLastConversationFile"}

\* The payload is valid but for the one missing field f.
LacksOnly(f) ==
    /\ GivenPayload.isObject
    /\ \A g \in DocumentedRequired : Has(GivenPayload.obj, g) <=> g # f
    /\ \A g \in DOMAIN GivenPayload.obj :
          Given(g).t = (IF g \in {"processLastConversationFile", "isJsonResponse"}
                        THEN "boolean" ELSE "string")

C1_MissingRequiredFieldRejected ==
    \A f \in DocumentedRequired :
        (Configured /\ LacksOnly(f)) =>
            /\ calls = <<>>
            /\ Done => /\ Response.status = 400
                       /\ Mentions(Response.message, f)

----------------------------------------------------------------------------
(* C3: a request that violates the Request invariant                       *)
(* (processLastConversationFile true without conversationId, or            *)
(* isJsonResponse true without responseSchema) is answered with a          *)
(* validation error, and no remote call is issued for it.  (Stated for a   *)
(* configured function.)                                                   *)

ViolatesRequestInvariant ==
    /\ GivenPayload.isObject
    /\ \/ IsTrue("processLastConversationFile")
            /\ ~Has(GivenPayload.obj, "conversationId")
       \/ IsTrue("isJsonResponse") /\ ~Has(GivenPayload.obj, "responseSchema")

C3_InvariantViolationRejected ==
    (Configured /\ ViolatesRequestInvariant) =>
        /\ calls = <<>>
        /\ Done => /\ Response.status = 400
                   /\ Response.message[1] = "Invalid input: "

----------------------------------------------------------------------------
(* C4: with processLastConversationFile true and a conversationId, a       *)
(* conversation-messages call precedes every file download and a request   *)
(* that succeeds has issued one; with processLastConversationFile false no *)
(* conversation-messages call is issued and the files that are handled are *)
(* exactly the supplied URLs.  (The handler issues no conversation-messages*)
(* call at all, so the part of the claim about the outcome of that call    *)
(* has no state to speak of.)                                              *)

ConversationCalls == CallsOf({"conversationMessages"})

C4_ConversationFileSource ==
    /\ (Configured /\ GivenPayload.isObject
            /\ IsTrue("processLastConversationFile")
            /\ Has(GivenPayload.obj, "conversationId")) =>
          /\ \A d \in CallsOf(FetchOps) : \E c \in ConversationCalls : c < d
          /\ (Done /\ Response.status = 200) => ConversationCalls # {}
    /\ (GivenPayload.isObject /\ IsFalse("processLastConversationFile")) =>
          /\ ConversationCalls = {}
          /\ \A i \in CallsOf(FetchOps \cup UploadOps) : calls[i].file \in Supplied
          /\ pc = "generate" =>
                {fileUploads[i].modality : i \in DOMAIN fileUploads} = Supplied

----------------------------------------------------------------------------
(* C2: for isJsonResponse = true and a responseSchema string that does not *)
(* parse as JSON, the handler answers with status 400 and no remote call   *)
(* of any kind has been issued, also when file URLs are present.  (Stated  *)
(* for a configured function.)                                             *)

UnparsableSchemas == {<<>>, BadSchema}

C2_BadSchemaBeforeAnyCall ==
    (/\ Configured
     /\ GivenPayload.isObject
     /\ IsTrue("isJsonResponse")
     /\ Given("responseSchema").t = "string"
     /\ Given("responseSchema").v \in UnparsableSchemas) =>
        /\ calls = <<>>
        /\ Done => Response.status = 400

(* C2 as amended: for isJsonResponse = true and a non-empty responseSchema *)
(* string that does not parse as JSON, no generation call is ever issued,  *)
(* and the handler answers with status 400 "Invalid responseSchema JSON"   *)
(* unless an earlier stage (validation, API key, a file download or        *)
(* upload) has already failed; the downloads and uploads of the supplied   *)
(* files are issued before that answer.                                    *)

InputRejected ==
    ~GivenPayload.isObject \/ validateInput(GivenPayload.obj) # NoError

EarlierStageFailed ==
    \/ InputRejected
    \/ ~context.defined
    \/ KeyAbsent
    \/ \E i \in DOMAIN calls : calls[i].result # "ok"
    \/ Response.message[1] = "Failed to download "

InvalidSchemaResponse ==
    /\ Response.status = 400
    /\ Response.message = <<"Invalid responseSchema JSON">>

C2_BadSchemaBeforeGeneration ==
    (/\ GivenPayload.isObject
     /\ IsTrue("isJsonResponse")
     /\ Given("responseSchema") = Str(BadSchema)) =>
        /\ pc # "generate"
        /\ CallsOf({"generateContent"}) = {}
        /\ Done => /\ Response.status # 200
                   /\ InvalidSchemaResponse \/ EarlierStageFailed
                   /\ InvalidSchemaResponse =>
                        \A m \in Supplied :
                            \E i \in CallsOf({"uploadFinalize"}) : calls[i].file = m

\* The schema is rejected after the supplied PDF was downloaded and uploaded.
C2_Witness ==
    /\ Done
    /\ IsTrue("isJsonResponse")
    /\ Given("responseSchema") = Str(BadSchema)
    /\ InvalidSchemaResponse
    /\ "pdf" \in Supplied
    /\ Len(calls) = 3

----------------------------------------------------------------------------
(* C5: the content parts of the generation request are: the text part      *)
(* alone when no file was uploaded; the text part (left out when the       *)
(* prompt is empty) followed by the file part when the only file is a PDF; *)
(* otherwise the file parts in the order pdf, image, audio followed by the *)
(* text part (left out when the prompt is empty).                          *)

Uploaded == {fileUploads[i].modality : i \in DOMAIN fileUploads}

UploadOf(m) == CHOOSE u \in {fileUploads[i] : i \in DOMAIN fileUploads} : u.modality = m

ExpectedFilePart(m) ==
    [file_data |-> [mime_type |-> UploadOf(m).mime_type,
                    file_uri  |-> UploadOf(m).file_uri]]

ExpectedParts ==
    LET prompt    == Given("user_message").v
        textPart  == [text |-> prompt]
        textIfAny == IF prompt # <<>> THEN <<textPart>> ELSE <<>>
        Keep(m)   == m \in Uploaded
        order     == SelectSeq(Modalities, Keep)
        files     == [i \in 1..Len(order) |-> ExpectedFilePart(order[i])]
    IN  IF Uploaded = {} THEN <<textPart>>
        ELSE IF Uploaded = {"pdf"} THEN textIfAny \o files
        ELSE files \o textIfAny

C5_PartsOrder ==
    requestBody # <<>> => requestBody.contents[1].parts = ExpectedParts

\* A lone PDF with a prompt: the text part comes first.
C5_Witness ==
    /\ requestBody # <<>>
    /\ Uploaded = {"pdf"}
    /\ Given("user_message").v # <<>>
    /\ Len(requestBody.contents[1].parts) = 2
    /\ Has(requestBody.contents[1].parts[1], "text")

----------------------------------------------------------------------------
(* C6: fetching a URL that matches the stored-download pattern triggers    *)
(* exactly one token-exchange call followed by exactly one authenticated   *)
(* download call and no unauthenticated download; fetching any other URL   *)
(* triggers no token-exchange call and exactly one unauthenticated         *)
(* download call.                                                          *)

\* The URLs of the explored payloads that match
\* https://api-downloads.<domain>/api/v2/downloads/<id>.
StoredDownloadUrls == GenesysUrls

UrlOf(m) == Given(UrlProp(m)).v

\* fetchFile was called for the file of modality m and has returned
\* (the handler went on to upload it) or thrown (the handler answered with
\* the download failure of m).
FetchReturned(m) ==
    \/ pc = "uploadStart" /\ CurrentModality = m
    \/ \E i \in CallsOf({"uploadStart"}) : calls[i].file = m

FetchThrew(m) ==
    Done /\ Response.message = <<"Failed to download ", Label(m)>>

FetchOver(m) == FetchReturned(m) \/ FetchThrew(m)

TokenBeforeDownload(m) ==
    \A d \in CallsOf({"authDownload"}) : calls[d].file = m =>
        \E t \in CallsOf({"tokenExchange"}) :
            t < d /\ calls[t].file = m /\ calls[t].result = "ok"

C6_ExactlyOneTokenAndDownload ==
    \A m \in FileModalities :
        FetchOver(m) =>
            IF UrlOf(m) \in StoredDownloadUrls
            THEN /\ Count("tokenExchange", m) = 1
                 /\ Count("authDownload", m) = 1
                 /\ Count("download", m) = 0
                 /\ TokenBeforeDownload(m)
            ELSE /\ Count("tokenExchange", m) = 0
                 /\ Count("authDownload", m) = 0
                 /\ Count("download", m) = 1

(* C6 as amended: fetching a URL that matches the stored-download pattern  *)
(* never triggers an unauthenticated download; it triggers exactly one     *)
(* token-exchange call when both client credentials are available and none *)
(* otherwise, and exactly one authenticated download call, after the token *)
(* exchange, when that exchange returned an access token and none          *)
(* otherwise.  Fetching any other URL triggers no token-exchange call and  *)
(* exactly one unauthenticated download call.                              *)

CredentialsAvailable ==
    /\ Truthy(HeaderValue("gcClientId")) \/ Truthy(ContextValue("gcClientId"))
    /\ Truthy(HeaderValue("gcClientSecret")) \/ Truthy(ContextValue("gcClientSecret"))

TokenGranted(m) ==
    \E t \in CallsOf({"tokenExchange"}) : calls[t].file = m /\ calls[t].result = "ok"

C6_TokenThenDownload ==
    \A m \in FileModalities :
        /\ Count("tokenExchange", m) <= 1
        /\ Count("authDownload", m) <= 1
        /\ Count("download", m) <= 1
        /\ FetchOver(m) =>
            IF UrlOf(m) \in StoredDownloadUrls
            THEN /\ Count("tokenExchange", m) = (IF CredentialsAvailable THEN 1 ELSE 0)
                 /\ Count("authDownload", m) = (IF TokenGranted(m) THEN 1 ELSE 0)
                 /\ Count("download", m) = 0
                 /\ TokenBeforeDownload(m)
                 /\ FetchReturned(m) => Count("authDownload", m) = 1
            ELSE /\ Count("tokenExchange", m) = 0
                 /\ Count("authDownload", m) = 0
                 /\ Count("download", m) = 1

\* A stored PDF was fetched with a token and an http look-alike image was
\* fetched directly.
C6_Witness ==
    /\ UrlOf("pdf") \in StoredDownloadUrls
    /\ UrlOf("image") = PlainHttpUrl
    /\ FetchReturned("pdf")
    /\ FetchReturned("image")
    /\ Count("tokenExchange", "pdf") = 1
    /\ Count("download", "image") = 1

----------------------------------------------------------------------------
(* C7: when an upload-start call returns no session upload URL, or an      *)
(* upload-finalize call returns no file reference, the invocation ends     *)
(* with the response "Failed to upload <modality>" whose detail carries    *)
(* the provider's response body; no finalize call follows a failed start   *)
(* and no generation call is issued in that invocation.                    *)

UploadRefused(i) ==
    \/ calls[i].op = "uploadStart" /\ calls[i].result = "noUploadUrl"
    \/ calls[i].op = "uploadFinalize" /\ calls[i].result = "noFileUri"

C7_UploadFailureEndsRequest ==
    \A i \in DOMAIN calls :
        UploadRefused(i) =>
            /\ i = Len(calls)
            /\ CallsOf({"generateContent"}) = {}
            /\ Done
            /\ Len(callbacks) = 1
            /\ Response.status = 400
            /\ Response.message = <<"Failed to upload ", Label(calls[i].file)>>
            /\ Response.detail.t = "string"
            /\ Response.detail.v[Len(Response.detail.v)] = calls[i].body

\* The start call of the image upload was refused after the PDF went through.
C7_Witness ==
    /\ Done
    /\ Len(calls) = 5
    /\ calls[5].op = "uploadStart"
    /\ calls[5].result = "noUploadUrl"
    /\ calls[5].file = "image"
    /\ Response.message = <<"Failed to upload ", "image">>

----------------------------------------------------------------------------
(* C8: when the provider API key is absent from the configuration context, *)
(* the invocation ends with an error response and no remote call is        *)
(* issued, whatever file URLs the payload carries; for a payload that      *)
(* passes validation the response is the status-400 missing-key response.  *)

C8_MissingKeyIsTerminal ==
    (context.defined /\ KeyAbsent) =>
        /\ calls = <<>>
        /\ pc \in {"start", "validate", "credentials", "done"}
        /\ Done => /\ Response.status # 200
                   /\ ~InputRejected => Response = MissingKeyResponse

\* A payload with a PDF URL and a stored image is turned away for the key.
C8_Witness ==
    /\ Done
    /\ context.defined
    /\ KeyAbsent
    /\ Supplied # {}
    /\ Response.status = 400
    /\ Response.message = <<"Missing googleApiKey in context.clientContext">>

----------------------------------------------------------------------------
(* C9: the first failure of any stage ends the invocation: a failed remote *)
(* call is the last call issued, the response is the error response of the *)
(* stage that failed and names that file alone, and a failure of a local   *)
(* stage (payload parse, validation, credentials, schema parse) is         *)
(* answered without any further call.                                      *)

StageMessage(c) ==
    CASE c.op \in FetchOps  -> <<"Failed to download ", Label(c.file)>>
      [] c.op \in UploadOps -> <<"Failed to upload ", Label(c.file)>>
      [] OTHER              -> <<"Failed to call generateContent">>

LocalFailureMessages ==
    {<<"rawRequest is not valid JSON">>, <<"Internal error">>,
     <<"Missing googleApiKey in context.clientContext">>,
     <<"Invalid responseSchema JSON">>}

C9_FirstFailureEndsInvocation ==
    /\ Len(callbacks) = (IF Done THEN 1 ELSE 0)
    /\ \A i \in DOMAIN calls :
          calls[i].result # "ok" =>
              /\ i = Len(calls)
              /\ Done
              /\ Response.status # 200
              /\ Response.message = StageMessage(calls[i])
    /\ (Done /\ \A i \in DOMAIN calls : calls[i].result = "ok") =>
          \/ /\ Response.status = 200
             /\ calls # <<>>
             /\ calls[Len(calls)].op = "generateContent"
          \/ /\ Response.status \in {400, 500}
             /\ CallsOf({"generateContent"}) = {}
             /\ \/ Response.message \in LocalFailureMessages
                \/ Response.message[1] = "Invalid input: " /\ calls = <<>>
                \/ /\ Response.message[1] = "Failed to download "
                   /\ ~CredentialsAvailable
    /\ event.rawRequest.form = "malformed" =>
          calls = <<>> /\ pc \in {"start", "done"}
    /\ InputRejected => calls = <<>> /\ pc \in {"start", "validate", "done"}

\* The image download failed after the PDF was staged; the audio file that
\* was also supplied is never touched.
C9_Witness ==
    /\ Done
    /\ Supplied = {"pdf", "image", "audio"}
    /\ Len(calls) = 4
    /\ calls[4].file = "image"
    /\ calls[4].result # "ok"
    /\ Response.message = <<"Failed to download ", "image">>

----------------------------------------------------------------------------
(* C10: whenever a generation call is issued, every file URL the payload   *)
(* supplies has been downloaded and its upload finalized, and the request  *)
(* carries exactly one file part per supplied URL.                         *)

Staged(m) ==
    \E d \in CallsOf({"download", "authDownload"}) :
        /\ calls[d].file = m
        /\ calls[d].result = "ok"
        /\ \E u \in CallsOf({"uploadFinalize"}) :
              d < u /\ calls[u].file = m /\ calls[u].result = "ok"

FilePartsFor(m) ==
    {i \in DOMAIN requestBody.contents[1].parts :
        /\ Has(requestBody.contents[1].parts[i], "file_data")
        /\ requestBody.contents[1].parts[i].file_data.file_uri = Str(<<"files/", m>>)}

AllFileParts ==
    {i \in DOMAIN requestBody.contents[1].parts :
        Has(requestBody.contents[1].parts[i], "file_data")}

C10_AllFilesStagedBeforeGeneration ==
    (pc = "generate" \/ CallsOf({"generateContent"}) # {}) =>
        /\ \A m \in Supplied : Staged(m) /\ Cardinality(FilePartsFor(m)) = 1
        /\ Cardinality(AllFileParts) = Cardinality(Supplied)

\* Generation was called for a request with an image and an audio file.
C10_Witness ==
    /\ CallsOf({"generateContent"}) # {}
    /\ Supplied = {"image", "audio"}
    /\ Staged("image")
    /\ Staged("audio")

----------------------------------------------------------------------------
(* C11: the content-generation endpoint is called at most once in an       *)
(* invocation, and exactly once when every earlier stage succeeded; a      *)
(* remote call that failed is never followed by another call, nothing      *)
(* follows the generation call, and each of token exchange, download,      *)
(* upload start and upload finalize is issued at most once per file.       *)

GenerationCalls == CallsOf({"generateContent"})

SchemaUsable ==
    ~(IsTrue("isJsonResponse") /\ Given("responseSchema") = Str(BadSchema))

EarlierStagesSucceeded ==
    /\ ~InputRejected
    /\ Configured
    /\ (\E m \in Supplied : UrlOf(m) \in StoredDownloadUrls) => CredentialsAvailable
    /\ SchemaUsable
    /\ \A i \in DOMAIN calls :
          calls[i].op # "generateContent" => calls[i].result = "ok"

C11_CallsAtMostOnce ==
    /\ Cardinality(GenerationCalls) <= 1
    /\ (Done /\ EarlierStagesSucceeded) => Cardinality(GenerationCalls) = 1
    /\ \A op \in FetchOps \cup UploadOps :
          \A m \in FileModalities : Count(op, m) <= 1
    /\ \A i \in DOMAIN calls :
          (calls[i].result # "ok" \/ calls[i].op = "generateContent") =>
              i = Len(calls)

\* Three files went through and the one generation call failed: eleven
\* calls, none repeated.
C11_Witness ==
    /\ Done
    /\ Supplied = {"pdf", "image", "audio"}
    /\ UrlOf("image") \in StoredDownloadUrls
    /\ Len(calls) = 11
    /\ calls[11].op = "generateContent"
    /\ calls[11].result # "ok"

----------------------------------------------------------------------------
(* C12: the provider API key the handler works with comes only from the    *)
(* configuration context: the key it holds once remote calls begin is the  *)
(* context's key, a googleApiKey placed in the request headers reaches no  *)
(* variable the handler computes with (so the calls and the response do    *)
(* not depend on it), and a key present only in the headers is treated as  *)
(* missing.                                                                *)

ConfiguredKey ==
    IF context.defined /\ context.clientContext.isObject
    THEN Get(context.clientContext.obj, "googleApiKey")
    ELSE Undefined

HeaderKey ==
    IF event.headers.isObject
    THEN Get(event.headers.obj, "googleApiKey")
    ELSE Undefined

\* The value the configuration context holds under the name n.
ConfiguredValue(n) ==
    IF context.defined /\ context.clientContext.isObject
    THEN Get(context.clientContext.obj, n)
    ELSE Undefined

\* The client credentials as the headers without their googleApiKey and the
\* context determine them.
CredentialsWithoutHeaderKey ==
    LET FromHeaders(n) == IF event.headers.isObject /\ n # "googleApiKey"
                          THEN Get(event.headers.obj, n) ELSE Undefined
        FromContext(n) == IF context.clientContext.isObject
                          THEN Get(context.clientContext.obj, n) ELSE Undefined
        Pick(n) == IF Truthy(FromHeaders(n)) THEN FromHeaders(n) ELSE FromContext(n)
    IN  [gcClientId |-> Pick("gcClientId"), gcClientSecret |-> Pick("gcClientSecret")]

----------------------------------------------------------------------------
(* C13: for every successful provider response the output has status 200,  *)
(* finishReason is the first candidate's finish reason and usage is the    *)
(* usage metadata object, both unchanged, textOutput is the first          *)
(* candidate's first part's text, and geminiResponse is the raw response;  *)
(* a missing finish reason, text or usage metadata yields the empty        *)
(* string, the empty string and the empty object.                          *)

Succeeded == Done /\ calls # <<>> /\ calls[Len(calls)].op = "generateContent"
                  /\ calls[Len(calls)].result = "ok"

\* The response body of the generation call.
ProviderData == calls[Len(calls)].data

ProviderText   == IF ProviderData.text.t = "string" THEN ProviderData.text.v ELSE <<>>
ProviderFinish == IF ProviderData.finishReason.t = "string"
                  THEN ProviderData.finishReason.v ELSE <<>>
ProviderUsage  == IF ProviderData.usageMetadata.isObject
                  THEN ProviderData.usageMetadata.obj ELSE <<>>

SurfacedUnchanged ==
    /\ Response.status = 200
    /\ Response.message = <<"success">>
    /\ Response.geminiResponse = ProviderData
    /\ Response.finishReason = ProviderFinish
    /\ Response.usage = ProviderUsage

C13_OutputIsProviderResponse ==
    Succeeded => SurfacedUnchanged /\ Response.textOutput = ProviderText

(* C13 as amended: as above, except that textOutput is the first           *)
(* candidate's first part's text with its leading and trailing whitespace  *)
(* removed when isJsonResponse is true, and that text unchanged otherwise. *)

\* s without its leading and trailing whitespace tokens.
Stripped(s) ==
    LET solid == {i \in DOMAIN s : s[i] \notin Whitespace}
    IN  IF solid = {} THEN <<>>
        ELSE SubSeq(s, Min(solid), CHOOSE i \in solid : \A j \in solid : j <= i)

C13_OutputIsProviderResponseUpToTrim ==
    Succeeded =>
        /\ SurfacedUnchanged
        /\ Response.textOutput =
              (IF IsTrue("isJsonResponse") THEN Stripped(ProviderText) ELSE ProviderText)

\* A response with finish reason and usage metadata but no text.
C13_Witness ==
    /\ Succeeded
    /\ ProviderData.text = Undefined
    /\ Response.textOutput = <<>>
    /\ Response.finishReason = <<"SAFETY">>
    /\ Response.usage = [promptTokenCount |-> Num("7")]

----------------------------------------------------------------------------
(* C14: when isJsonResponse is true, textOutput is the provider text with  *)
(* its leading and trailing whitespace removed and its interior unchanged; *)
(* when isJsonResponse is false or absent, textOutput is the provider text *)
(* unchanged.                                                              *)

\* out is text less a whitespace-only prefix and a whitespace-only suffix,
\* and neither begins nor ends with whitespace.
IsTrimOf(out, text) ==
    /\ out # <<>> => out[1] \notin Whitespace /\ out[Len(out)] \notin Whitespace
    /\ \E k \in 0..Len(text) :
          /\ k + Len(out) <= Len(text)
          /\ out = SubSeq(text, k + 1, k + Len(out))
          /\ \A i \in DOMAIN text :
                (i <= k \/ i > k + Len(out)) => text[i] \in Whitespace

C14_TrimOnlyForJson ==
    Succeeded =>
        IF IsTrue("isJsonResponse")
        THEN IsTrimOf(Response.textOutput, ProviderText)
        ELSE Response.textOutput = ProviderText

\* A JSON answer wrapped in whitespace, with a blank inside it, came back
\* without the wrapping and with the inner blank.
C14_Witness ==
    /\ Succeeded
    /\ IsTrue("isJsonResponse")
    /\ ProviderText = <<" ", "{\"a\":", " ", "1}", "\n">>
    /\ Response.textOutput = <<"{\"a\":", " ", "1}">>

----------------------------------------------------------------------------
(* C15: a payload in which a recognized optional field is present with a   *)
(* value of the wrong type (a non-string URL, model, system_message,       *)
(* responseSchema or conversationId, a non-number temperature, a           *)
(* non-integer max_tokens, a non-boolean isJsonResponse or                 *)
(* processLastConversationFile) is answered with status 400 and a message  *)
(* that describes the violation, and no remote call is issued for it.      *)
(* (Stated for a configured function and a payload whose other fields are  *)
(* well typed.)                                                            *)

OptionalFields ==
    {"pdfDownloadUrl", "imageDownloadUrl", "audioDownloadUrl", "model",
     "system_message", "responseSchema", "conversationId", "temperature",
     "max_tokens", "isJsonResponse", "processLastConversationFile"}

IntegerLiterals == {"0", "2", "7", "42", "256"}

WellTyped(f, x) ==
    CASE f \in {"temperature"} -> x.t = "number"
      [] f \in {"max_tokens"}  -> x.t = "number" /\ x.v[1] \in IntegerLiterals
      [] f \in {"isJsonResponse", "processLastConversationFile"} -> x.t = "boolean"
      [] OTHER -> x.t = "string"

\* f is the one field of the payload whose value has the wrong type.
OnlyWrongType(f) ==
    /\ GivenPayload.isObject
    /\ Has(GivenPayload.obj, "user_message")
    /\ Has(GivenPayload.obj, f)
    /\ \A g \in DOMAIN GivenPayload.obj : WellTyped(g, Given(g)) <=> g # f

C15_WrongTypeRejected ==
    \A f \in OptionalFields :
        (Configured /\ OnlyWrongType(f)) =>
            /\ calls = <<>>
            /\ pc \in {"start", "validate", "done"}
            /\ Done => /\ Response.status = 400
                       /\ Mentions(Response.message, f)

----------------------------------------------------------------------------
(* C16: every response the handler emits has a numeric status and a string *)
(* message; every response for a download, upload, invalid-schema or       *)
(* generation failure carries a detail field; and detail, whenever it is   *)
(* present, is a string, also when the provider's error body is a JSON     *)
(* object.                                                                 *)

DetailedFailures ==
    {"Failed to download ", "Failed to upload ", "Invalid responseSchema JSON",
     "Failed to call generateContent"}

C16_ResponseShape ==
    \A i \in DOMAIN callbacks :
        /\ callbacks[i].status \in Nat
        /\ callbacks[i].message \in Seq(STRING)
        /\ callbacks[i].message[1] \in DetailedFailures =>
              Has(callbacks[i], "detail")
        /\ Has(callbacks[i], "detail") => callbacks[i].detail.t = "string"

----------------------------------------------------------------------------
(* C17: the generation configuration of every request carries temperature  *)
(* and max-output-tokens: the payload's values when it supplies them       *)
(* (temperature 0 included), and otherwise the declared defaults,          *)
(* temperature 0.2 and max_tokens 4096.                                    *)

DeclaredTemperature == Num("0.2")
DeclaredMaxTokens   == Num("4096")

C17_GenerationConfigDefaults ==
    requestBody # <<>> =>
        /\ requestBody.generationConfig.temperature =
              (IF Has(GivenPayload.obj, "temperature")
               THEN Given("temperature") ELSE DeclaredTemperature)
        /\ requestBody.generationConfig.maxOutputTokens =
              (IF Has(GivenPayload.obj, "max_tokens")
               THEN Given("max_tokens") ELSE DeclaredMaxTokens)

----------------------------------------------------------------------------
(* C18: the remote calls of one invocation occur in strict sequence: each  *)
(* call begins only after the call before it has completed successfully;   *)
(* the files are handled in the order pdf, image, audio, and for each      *)
(* supplied file its (token exchange,) download, upload start and upload   *)
(* finalize have all completed before any call for a later file, or the    *)
(* generation call, begins.  (Every remote call is awaited, so a call in   *)
(* the log has completed before the next one is appended.)                 *)

FileOrder(m) ==
    CASE m = "pdf" -> 1 [] m = "image" -> 2 [] m = "audio" -> 3 [] OTHER -> 4

OpOrder(op) ==
    CASE op = "tokenExchange"  -> 1
      [] op \in {"authDownload", "download"} -> 2
      [] op = "uploadStart"    -> 3
      [] op = "uploadFinalize" -> 4
      [] OTHER                 -> 5

\* Call i belongs before call j.
Precedes(i, j) ==
    \/ FileOrder(calls[i].file) < FileOrder(calls[j].file)
    \/ /\ calls[i].file = calls[j].file
       /\ OpOrder(calls[i].op) < OpOrder(calls[j].op)

\* Before call j, the file of modality m went through all of its calls.
CompletedBefore(m, j) ==
    \E d, u, f \in 1..(j - 1) :
        /\ d < u /\ u < f
        /\ calls[d].file = m /\ calls[d].op \in {"authDownload", "download"}
        /\ calls[u].file = m /\ calls[u].op = "uploadStart"
        /\ calls[f].file = m /\ calls[f].op = "uploadFinalize"
        /\ \A k \in {d, u, f} : calls[k].result = "ok"

C18_StrictSequence ==
    \A j \in DOMAIN calls :
        /\ \A i \in 1..(j - 1) : calls[i].result = "ok" /\ Precedes(i, j)
        /\ \A m \in Supplied :
              FileOrder(m) < FileOrder(calls[j].file) => CompletedBefore(m, j)

\* PDF, stored image and audio were handled one after the other, and then
\* the generation call was made.
C18_Witness ==
    /\ Done
    /\ Response.status = 200
    /\ Len(calls) = 11
    /\ calls[3].file = "pdf"
    /\ calls[4].file = "image" /\ calls[4].op = "tokenExchange"
    /\ calls[8].file = "audio"
    /\ calls[11].op = "generateContent"

----------------------------------------------------------------------------
(* C19: every invocation, whatever the event, the context and the outcome  *)
(* of each remote call, eventually emits exactly one response through the  *)
(* callback, and never a second one; a failure that no stage handles (a    *)
(* rawRequest that parses to a non-object, an absent context) is answered  *)
(* with status 500 "Internal error".                                       *)

\* The invocation runs into an exception no stage catches.
Unhandled ==
    \/ event.rawRequest.form = "scalar"
    \/ ~context.defined /\ ~InputRejected

OneResponseAtMost ==
    /\ Len(callbacks) = (IF Done THEN 1 ELSE 0)
    /\ (Done /\ Unhandled) =>
          /\ Response.status = 500
          /\ Response.message = <<"Internal error">>
          /\ calls = <<>>

C19_ExactlyOneResponse == []OneResponseAtMost /\ <>[]Done

\* An invocation without a context was answered with the internal error.
C19_Witness ==
    /\ Done
    /\ ~context.defined
    /\ "pdf" \in Supplied
    /\ Len(callbacks) = 1
    /\ Response.status = 500

----------------------------------------------------------------------------
(* C20: a missing contact-center client id or secret (in neither the       *)
(* headers nor the configuration context) is an error only for a file      *)
(* whose URL matches the stored-download pattern, and then no token         *)
(* exchange and no download is issued for that file; a request whose file  *)
(* URLs are all public, or that has no file, goes on to generation without *)
(* those credentials.  Where the headers supply a credential, the header   *)
(* value is used, whatever the configuration context holds.                *)

MissingCredentialsDetail ==
    Str(<<"Missing gcClientId or gcClientSecret in headers or clientContext for Genesys Cloud file download.">>)

BlamesCredentials ==
    Done /\ Has(Response, "detail") /\ Response.detail = MissingCredentialsDetail

StoredSupplied == {m \in Supplied : UrlOf(m) \in StoredDownloadUrls}

C20_CredentialsOnlyForStoredUrls ==
    /\ ~CredentialsAvailable =>
          \A m \in StoredSupplied :
              /\ \A op \in FetchOps : Count(op, m) = 0
              /\ FetchOver(m) =>
                    /\ BlamesCredentials
                    /\ Response.status = 400
                    /\ Response.message = <<"Failed to download ", Label(m)>>
    /\ BlamesCredentials => ~CredentialsAvailable /\ StoredSupplied # {}
    /\ (/\ Done
        /\ StoredSupplied = {}
        /\ ~InputRejected /\ Configured /\ SchemaUsable
        /\ \A i \in DOMAIN calls :
              calls[i].op # "generateContent" => calls[i].result = "ok") =>
          GenerationCalls # {}
    /\ gcCredentials # <<>> =>
          \A n \in {"gcClientId", "gcClientSecret"} :
              gcCredentials[n] =
                  (IF Truthy(HeaderValue(n)) THEN HeaderValue(n) ELSE ConfiguredValue(n))

\* Without any client credential, a request with a public PDF was answered
\* by the provider.
C20_Witness ==
    /\ Done
    /\ ~Truthy(HeaderValue("gcClientId"))
    /\ ~Truthy(ConfiguredValue("gcClientId"))
    /\ Supplied = {"pdf"}
    /\ Count("download", "pdf") = 1
    /\ Response.status = 200

----------------------------------------------------------------------------
(* C21: when the event carries a rawRequest, the payload is the JSON       *)
(* parsed from it and the event's own fields are ignored; when rawRequest  *)
(* does not parse, the handler responds with status 400 carrying the parse *)
(* failure description and performs no validation, credential lookup or    *)
(* remote call; only when rawRequest is absent is the event itself the     *)
(* payload.                                                                *)

\* The handler has chosen its payload.
PayloadChosen == pc # "start" /\ ~(Done /\ callbacks[1].message = <<"rawRequest is not valid JSON">>)

\* The handler stopped at the payload: nothing was validated, looked up or
\* called, and the answer is the parse failure.
StoppedAtParse ==
    /\ pc \in {"start", "done"}
    /\ payload = NotObj
    /\ gcCredentials = <<>>
    /\ googleApiKey = Undefined
    /\ calls = <<>>
    /\ Done => /\ Response.status = 400
               /\ Response.message = <<"rawRequest is not valid JSON">>
               /\ Has(Response, "detail")
               /\ Response.detail.t = "string"
               /\ Response.detail.v # <<>>

ParsedFromRaw ==
    /\ (event.rawRequest.form = "object" /\ PayloadChosen) =>
          payload = Obj(event.rawRequest.body)
    /\ (event.rawRequest.form = "scalar" /\ PayloadChosen) =>
          ~payload.isObject

C21_RawRequestOrAbsent ==
    /\ ParsedFromRaw
    /\ event.rawRequest.form \in {"malformed", "empty"} => StoppedAtParse
    /\ (event.rawRequest.form = "absent" /\ pc # "start") =>
          payload = Obj(event.fields)

(* C21 as amended: when the event carries a non-empty rawRequest string,   *)
(* the payload is the JSON parsed from it and the event's own fields are   *)
(* ignored; when that string does not parse, the handler responds with     *)
(* status 400 carrying the parse failure description and performs no       *)
(* validation, credential lookup or remote call; when rawRequest is absent *)
(* or the empty string, the event itself is the payload.                   *)

C21_RawRequestUnlessEmpty ==
    /\ ParsedFromRaw
    /\ event.rawRequest.form = "malformed" => StoppedAtParse
    /\ event.rawRequest.form \in {"absent", "empty"} =>
          /\ pc # "start" => payload = Obj(event.fields)
          /\ Done => Response.message # <<"rawRequest is not valid JSON">>

\* The raw body names no file while the event's own fields carry a PDF
\* URL: the request is answered from the raw body alone, with no download.
C21_Witness ==
    /\ Done
    /\ event.rawRequest.form = "object"
    /\ Has(event.fields, "pdfDownloadUrl")
    /\ ~Has(event.rawRequest.body, "pdfDownloadUrl")
    /\ payload = Obj(event.rawRequest.body)
    /\ Response.status = 200
    /\ Len(calls) = 1

----------------------------------------------------------------------------
(* C22: every generation request the handler issues contains at least one  *)
(* content part: with no file the single part is the text part, also when  *)
(* user_message is the empty string, and with at least one file there is a *)
(* file part for every file, also when the text part is left out.          *)

RequestParts == requestBody.contents[1].parts

C22_AtLeastOnePart ==
    (pc = "generate" \/ GenerationCalls # {}) =>
        /\ requestBody # <<>>
        /\ Len(RequestParts) >= 1
        /\ Supplied = {} => RequestParts = <<[text |-> Given("user_message").v]>>
        /\ Supplied # {} =>
              /\ \A m \in Supplied : FilePartsFor(m) # {}
              /\ Given("user_message").v = <<>> =>
                    Len(RequestParts) = Cardinality(Supplied)

\* A request with an empty prompt and no file was sent with one empty text
\* part.
C22_Witness ==
    /\ GenerationCalls # {}
    /\ Supplied = {}
    /\ Given("user_message") = Str(<<>>)
    /\ RequestParts = <<[text |-> <<>>]>>

====
